---------------------------- MODULE Spec2Model ----------------------------
(***************************************************************************)
(* Charging test bench: instrument detection, the polling loop and the     *)
(* shutdown sequence of the four scripts of the repository                 *)
(*   charging.py, Working_Rasp-Windows/main_test.py (with wt310e_driver),  *)
(*   charging_log_PC_working.py and charging_working.py.                   *)
(***************************************************************************)
EXTENDS Integers, Sequences, FiniteSets, TLC

(***************************************************************************)
(* Bounds of the model.                                                    *)
(***************************************************************************)
\* longest list of candidate endpoints a detection is run on
MaxCands == 2
\* most ticks of the polling loop a run takes
MaxTicks == 2
\* most ticks the loop's clock on its own is followed for
MaxSchedTicks == 3
\* most calls of WT310E.close on one driver
MaxCloses == 3

\* calls of wait_until_next_10sec_tick followed
MaxWaits == 2

(***************************************************************************)
(* Program constants.                                                      *)
(***************************************************************************)
Variants == {"charging", "main_test", "pc_working", "working"}

\* volts, in hundredths
STOP_VOLTAGE == [charging |-> 835, main_test |-> 835, pc_working |-> 835, working |-> 830]

\* read_wt310e(ser, retries=5)
retries == 5

\* times are in units of 0.05 s.  LOG_INTERVAL = 10 (seconds)
LOG_INTERVAL == 200
\* time.sleep(0.1), the yield at the end of each pass of charging.py's loop
YieldSleep == 2
\* for _ in range(3): queries of one attempt that skip blank replies
BlankSkips == 3

(***************************************************************************)
(* Floats.  A float is a number (in hundredths) or NaN; every comparison   *)
(* with NaN is false and abs(NaN) is NaN, as in Python.                    *)
(***************************************************************************)
Num(x) == [nan |-> FALSE, x |-> x]
NaN == [nan |-> TRUE, x |-> 0]

Ge(a, b) == ~a.nan /\ ~b.nan /\ a.x >= b.x
Lt(a, b) == ~a.nan /\ ~b.nan /\ a.x < b.x
Abs(a) == IF a.nan THEN a ELSE IF a.x < 0 THEN Num(0 - a.x) ELSE a

\* the field texts the instruments reply with
Tokens == {"", "x", "NAN", "8.00", "8.30", "8.35", "1.50", "-1.50", "12.00", "-12.00"}

\* float(s): the texts float() accepts (it raises ValueError on the others)
IsFloat(s) == s \in {"NAN", "8.00", "8.30", "8.35", "1.50", "-1.50", "12.00", "-12.00"}

Float(s) ==
    CASE s = "NAN"    -> NaN
      [] s = "8.00"   -> Num(800)
      [] s = "8.30"   -> Num(830)
      [] s = "8.35"   -> Num(835)
      [] s = "1.50"   -> Num(150)
      [] s = "-1.50"  -> Num(0 - 150)
      [] s = "12.00"  -> Num(1200)
      [] s = "-12.00" -> Num(0 - 1200)

(***************************************************************************)
(* Replies of the power meter to the measurement query.  A reply line is   *)
(* held as the list of its comma-separated fields (raw.split(",")); the    *)
(* empty line is the one-field list <<"">>.  "RAISE" stands for a          *)
(* transport exception of the query.                                       *)
(***************************************************************************)
EmptyLine == <<"">>

RawLines ==
    { EmptyLine,
      <<"8.00", "1.50", "12.00">>,
      <<"8.30", "-1.50", "-12.00">>,
      <<"8.35", "-1.50", "12.00">>,
      <<"NAN", "1.50", "12.00">>,
      <<"8.00", "1.50">>,
      <<"8.00", "", "1.50", "12.00">>,
      <<"8.00", "x", "12.00">>,
      <<"8.00", "1.50", "12.00", "x">> }

CommError == <<"RAISE">>

QueryReplies == RawLines \cup {CommError}

\* [p.strip() for p in raw_line.split(",") if p.strip() != ""]
RECURSIVE NonEmptyFields(_)
NonEmptyFields(fs) ==
    IF fs = <<>> THEN <<>>
    ELSE IF Head(fs) = "" THEN NonEmptyFields(Tail(fs))
         ELSE <<Head(fs)>> \o NonEmptyFields(Tail(fs))


(***************************************************************************)
(* Detection.  A candidate endpoint is its resource name and what probing  *)
(* it does: the open raises, the *IDN? query raises, or the query replies. *)
(***************************************************************************)
Names == {"USB0::0x0B21::0x0025::INSTR", "ASRL6::INSTR", "ASRL/dev/ttyUSB0::INSTR"}

\* "USB" in res
HasUSB(res) == res \in {"USB0::0x0B21::0x0025::INSTR", "ASRL/dev/ttyUSB0::INSTR"}
\* res.startswith("ASRL") and res.endswith("INSTR")
IsAsrlInstr(res) == res \in {"ASRL6::INSTR", "ASRL/dev/ttyUSB0::INSTR"}

Idns == {"YOKOGAWA,WT310E,C2VC12345,F1.03", "WT310E", "OWON,SPE6103,2214,FV:V3.2", ""}

\* "YOKOGAWA" in idn
HasYokogawa(idn) == idn \in {"YOKOGAWA,WT310E,C2VC12345,F1.03"}
\* "WT310" in idn
HasWT310(idn) == idn \in {"YOKOGAWA,WT310E,C2VC12345,F1.03", "WT310E"}
\* "SPE" in idn or "6103" in idn
HasSpeOr6103(idn) == idn \in {"OWON,SPE6103,2214,FV:V3.2"}

Probes == {"open_fail", "query_fail"} \cup Idns

Candidate == [name : Names, probe : Probes]

CandLists(n) == UNION { [1..k -> Candidate] : k \in 0..n }

\* what a detection has done so far: the handles it opened and closed, the
\* candidates it tried to open, and (ret # 0) the candidate it returned
NoDetection == [ret |-> 0, backend |-> "None", opened |-> {}, closed |-> {}, tried |-> {}]

Opened(r, i) == [r EXCEPT !.opened = @ \cup {i}, !.tried = @ \cup {i}]
OpenFailed(r, i) == [r EXCEPT !.tried = @ \cup {i}]
Closed(r, i) == [r EXCEPT !.closed = @ \cup {i}]
Returned(r, i, b) == [r EXCEPT !.ret = i, !.backend = b]

\* a bug: every candidate is probed and the last match is returned
RECURSIVE DetectSpeExhaustive(_, _, _)
DetectSpeExhaustive(cands, i, r) ==
    IF i > Len(cands) THEN r
    ELSE LET c == cands[i] IN
         IF ~IsAsrlInstr(c.name) THEN DetectSpeExhaustive(cands, i + 1, r)
         ELSE IF c.probe = "open_fail" THEN DetectSpeExhaustive(cands, i + 1, OpenFailed(r, i))
         ELSE IF c.probe = "query_fail" THEN DetectSpeExhaustive(cands, i + 1, Opened(r, i))
         ELSE IF HasSpeOr6103(c.probe)
              THEN DetectSpeExhaustive(cands, i + 1, Returned(Opened(r, i), i, "VISA"))
         ELSE DetectSpeExhaustive(cands, i + 1, Closed(Opened(r, i), i))

\* detect_spe6103 of main_test.py, charging_log_PC_working.py and charging.py:
\* the try is inside the loop, dc.close() only on a non-matching reply
RECURSIVE DetectSpeFrom(_, _, _)
DetectSpeFrom(cands, i, r) ==
    IF i > Len(cands) THEN r
    ELSE LET c == cands[i] IN
         IF ~IsAsrlInstr(c.name) THEN DetectSpeFrom(cands, i + 1, r)
         ELSE IF c.probe = "open_fail" THEN DetectSpeFrom(cands, i + 1, OpenFailed(r, i))
         ELSE IF c.probe = "query_fail" THEN DetectSpeFrom(cands, i + 1, Opened(r, i))
         ELSE IF HasSpeOr6103(c.probe) THEN Returned(Opened(r, i), i, "VISA")
         ELSE DetectSpeFrom(cands, i + 1, Closed(Opened(r, i), i))

detect_spe6103(cands) == DetectSpeFrom(cands, 1, NoDetection)

\* detect_wt310e of charging_log_PC_working.py: no close on a non-matching reply
RECURSIVE DetectWtVisaFrom(_, _, _)
DetectWtVisaFrom(cands, i, r) ==
    IF i > Len(cands) THEN r
    ELSE LET c == cands[i] IN
         IF ~HasUSB(c.name) THEN DetectWtVisaFrom(cands, i + 1, r)
         ELSE IF c.probe = "open_fail" THEN DetectWtVisaFrom(cands, i + 1, OpenFailed(r, i))
         ELSE IF c.probe = "query_fail" THEN DetectWtVisaFrom(cands, i + 1, Opened(r, i))
         ELSE IF HasYokogawa(c.probe) \/ HasWT310(c.probe)
              THEN Returned(Opened(r, i), i, "VISA")
         ELSE DetectWtVisaFrom(cands, i + 1, Opened(r, i))

detect_wt310e_visa(cands) == DetectWtVisaFrom(cands, 1, NoDetection)

\* detect_wt310e of charging.py over the sorted /dev/ttyUSB* devices: the port
\* is closed after the reply was read and its name is returned
RECURSIVE DetectWtSerialFrom(_, _, _)
DetectWtSerialFrom(cands, i, r) ==
    IF i > Len(cands) THEN r
    ELSE LET c == cands[i] IN
         IF c.probe = "open_fail" THEN DetectWtSerialFrom(cands, i + 1, OpenFailed(r, i))
         ELSE IF c.probe = "query_fail" THEN DetectWtSerialFrom(cands, i + 1, Opened(r, i))
         ELSE IF HasYokogawa(c.probe) \/ HasWT310(c.probe)
              THEN Returned(Closed(Opened(r, i), i), i, "SERIAL")
         ELSE DetectWtSerialFrom(cands, i + 1, Closed(Opened(r, i), i))

detect_wt310e_serial(cands) == DetectWtSerialFrom(cands, 1, NoDetection)

\* the VISA loop of WT310E.connect: one try around the whole loop, so the
\* first exception ends it
RECURSIVE ConnectVisaFrom(_, _, _)
ConnectVisaFrom(cands, i, r) ==
    IF i > Len(cands) THEN r
    ELSE LET c == cands[i] IN
         IF ~HasUSB(c.name) THEN ConnectVisaFrom(cands, i + 1, r)
         ELSE IF c.probe = "open_fail" THEN OpenFailed(r, i)
         ELSE IF c.probe = "query_fail" THEN Opened(r, i)
         ELSE IF HasYokogawa(c.probe) THEN Returned(Opened(r, i), i, "VISA")
         ELSE ConnectVisaFrom(cands, i + 1, Opened(r, i))

\* the USBTMC fallback of WT310E.connect, on the one fixed address; its handle
\* is numbered after the VISA candidates
ConnectUsbtmc(h, probe, r) ==
    IF probe = "open_fail" THEN OpenFailed(r, h)
    ELSE IF probe = "query_fail" THEN Opened(r, h)
    ELSE IF HasYokogawa(probe) THEN Returned(Opened(r, h), h, "USBTMC")
    ELSE Opened(r, h)

\* WT310E.connect: env tells which backends were imported, whether
\* pyvisa.ResourceManager() raises, and what probing the USBTMC address does
ConnectEnv == [pyvisa : BOOLEAN, usbtmc : BOOLEAN, rmOk : BOOLEAN, tmcProbe : Probes]

\* a bug: the USBTMC address is probed first, VISA only after it
ConnectUsbtmcFirst(cands, env) ==
    LET tmc == IF env.usbtmc THEN ConnectUsbtmc(Len(cands) + 1, env.tmcProbe, NoDetection)
               ELSE NoDetection
    IN  IF tmc.ret # 0 THEN tmc
        ELSE IF env.pyvisa /\ env.rmOk THEN ConnectVisaFrom(cands, 1, tmc)
        ELSE tmc

connect(cands, env) ==
    LET visa == IF env.pyvisa /\ env.rmOk THEN ConnectVisaFrom(cands, 1, NoDetection)
                ELSE NoDetection
    IN  IF visa.ret # 0 THEN visa
        ELSE IF env.usbtmc THEN ConnectUsbtmc(Len(cands) + 1, env.tmcProbe, visa)
        ELSE visa


(***************************************************************************)
(* Parsing a meter reply.                                                  *)
(***************************************************************************)
NoReading == [set |-> FALSE, Ov |-> Num(0), Oc |-> Num(0), Op |-> Num(0)]
Reading(v, i, p) == [set |-> TRUE, Ov |-> v, Oc |-> i, Op |-> p]

\* the raw_line one attempt of charging.py's read_wt310e ends with: the first
\* non-blank reply of up to three queries ("RAISE" when a query raised first)
RECURSIVE RawLineFrom(_, _)
RawLineFrom(qs, j) ==
    IF j > Len(qs) THEN EmptyLine
    ELSE IF qs[j] = CommError THEN CommError
    ELSE IF qs[j] # EmptyLine THEN qs[j]
    ELSE RawLineFrom(qs, j + 1)

\* one attempt of charging.py's read_wt310e on the replies qs of its queries;
\* serOpen is false when ser is None (every use of it raises AttributeError)
AttemptOutcome(qs, serOpen) ==
    LET raw == IF serOpen THEN RawLineFrom(qs, 1) ELSE CommError
        parts == NonEmptyFields(raw)
    IN  IF raw = CommError THEN [kind |-> "comm", diag |-> "exception", r |-> NoReading]
        ELSE IF raw = EmptyLine
             THEN [kind |-> "parse", diag |-> "empty response line", r |-> NoReading]
        ELSE IF Len(parts) < 3
             THEN [kind |-> "parse", diag |-> "incomplete response", r |-> NoReading]
        ELSE IF ~(IsFloat(parts[1]) /\ IsFloat(parts[2]) /\ IsFloat(parts[3]))
             THEN [kind |-> "parse", diag |-> "could not convert string to float", r |-> NoReading]
        ELSE [kind |-> "ok", diag |-> "",
              r |-> Reading(Float(parts[1]), Float(parts[2]), Float(parts[3]))]

\* WT310E.read and charging_log_PC_working.py's read_wt310e: one query,
\* raw.strip().split(","), float of parts[0..2]; any exception leaves the read
ReadOnce(q) ==
    IF q = CommError THEN [kind |-> "comm", diag |-> "exception", r |-> NoReading]
    ELSE IF (Len(q) >= 1 /\ ~IsFloat(q[1])) \/ (Len(q) >= 2 /\ ~IsFloat(q[2]))
         THEN [kind |-> "ValueError", diag |-> "could not convert string to float", r |-> NoReading]
    ELSE IF Len(q) < 3
         THEN [kind |-> "IndexError", diag |-> "list index out of range", r |-> NoReading]
    ELSE IF ~IsFloat(q[3])
         THEN [kind |-> "ValueError", diag |-> "could not convert string to float", r |-> NoReading]
    ELSE [kind |-> "ok", diag |-> "", r |-> Reading(Float(q[1]), Float(q[2]), Float(q[3]))]

\* charging_working.py's read_wt310e: three queries, one value each; the
\* k-th reply is the k-th field of q, a missing one the empty reply
FieldOrBlank(q, k) == IF k <= Len(q) THEN q[k] ELSE ""

ReadThree(q) ==
    IF q = CommError THEN [kind |-> "comm", diag |-> "exception", r |-> NoReading]
    ELSE IF \E k \in 1..3 : ~IsFloat(FieldOrBlank(q, k))
         THEN [kind |-> "ValueError", diag |-> "could not convert string to float", r |-> NoReading]
    ELSE [kind |-> "ok", diag |-> "", r |-> Reading(Float(q[1]), Float(q[2]), Float(q[3]))]

(***************************************************************************)
(* The CSV file: a list of lines, the header first.                        *)
(***************************************************************************)
CSV_HEADERS ==
    << "Timestamp", "Input_Voltage(V)", "Input_Current(A)", "Input_Power(W)",
       "Output_Voltage(V)", "Output_Current(A)", "Output_Power(W)" >>

\* the header charging_working.py writes
CSV_HEADERS_4 == << "Timestamp", "Voltage(V)", "Current(A)", "Power(W)" >>

HeaderLine(cols) == [kind |-> "header", cols |-> cols, vals |-> <<>>]
RowLine(cols, vals) == [kind |-> "row", cols |-> cols, vals |-> vals]

\* what the DC source measures (MEAS:VOLT?, MEAS:CURR?, MEAS:POW?)
DcMeas == [Iv |-> Num(1200), Ic |-> Num(200), Ip |-> Num(2400)]

\* a bug: the meter's values written before the DC source's
Row7OutputFirst(t, r) ==
    RowLine(<< "Timestamp", "Ov", "Oc", "Op", "Iv", "Ic", "Ip" >>,
            << Num(t), r.Ov, Abs(r.Oc), Abs(r.Op), DcMeas.Iv, DcMeas.Ic, DcMeas.Ip >>)

\* writerow([timestamp, Iv, Ic, Ip, Ov, output_current, output_power])
Row7(t, r) ==
    RowLine(<< "Timestamp", "Iv", "Ic", "Ip", "Ov", "Oc", "Op" >>,
            << Num(t), DcMeas.Iv, DcMeas.Ic, DcMeas.Ip, r.Ov, Abs(r.Oc), Abs(r.Op) >>)

\* charging_working.py: writer.writerow([timestamp, v, i, p])
Row4(t, r) ==
    RowLine(<< "Timestamp", "Ov", "Oc", "Op" >>, << Num(t), r.Ov, r.Oc, r.Op >>)

LogRowLine(v, t, r) == IF v = "working" THEN Row4(t, r) ELSE Row7(t, r)

\* update_plot(elapsed, Ov, output_current)
PlotPoint(r) == << r.Ov, Abs(r.Oc) >>


(***************************************************************************)
(* State.                                                                  *)
(***************************************************************************)
VARIABLES
    variant,    \* which script runs
    pc,         \* where main is
    inTry,      \* inside the try whose finally is the shutdown sequence
    exc,        \* the exception main ends with ("none": it returns)
    exitCause,  \* how the run left its normal course
    sdRuns,     \* how many times the shutdown sequence was entered
    wtConn,     \* the meter's transport: "none" (None), "open", "closed"
    dcConn,     \* the DC source's transport
    rmConn,     \* the VISA resource manager main (or detect_spe6103) holds
    wtRmConn,   \* the resource manager the WT310E driver holds (self.rm)
    backend,    \* WT310E.backend
    leakedBy,   \* the detections that left a handle open which nothing refers to
    notFound,   \* the instruments detection did not find
    wtCmds,     \* setup commands written to the meter
    dcCmds,     \* commands written to the DC source (attempts)
    outputOn,   \* the DC source's output
    csv,        \* the lines of the CSV file
    plotPts,    \* the points of the live plot
    plotSaved,  \* how many times the plot was written to an image file
    sdLog,      \* the shutdown steps executed, in order
    sdFailed,   \* the shutdown steps that raised
    tick,       \* ticks started
    voltage,    \* the loop's variable of that name
    reading,    \* the meter's values read in the current tick
    attempt,    \* read_wt310e: the attempt in progress
    lastError,  \* read_wt310e: last_error
    backoffs,   \* read_wt310e: 0.2 s sleeps of the current call
    detFn,      \* detection on its own: the function applied
    detCands,   \* its candidate endpoints
    detEnv,     \* its environment (WT310E.connect)
    detRes,     \* its result
    replies,    \* read_wt310e on its own: the replies to the queries of each attempt
    now,        \* the loop's clock on its own: time.time()
    next_log_time, \* charging.py: the time the next tick is due
    tickAt,     \* the times the ticks were taken at
    lats,       \* how long each tick took (log_row)
    closeLog,   \* WT310E.close on its own: what each call did
    sec,        \* charging_working.py's wait on its own: datetime.now().second
    waits       \* ... and what each call of it found and slept

ctl == << pc, exc, exitCause, sdRuns >>
conn == << wtConn, dcConn, rmConn, wtRmConn, backend, leakedBy, notFound >>
cmds == << wtCmds, dcCmds, outputOn >>
sinks == << csv, plotPts, plotSaved >>
sd == << sdLog, sdFailed >>
rd == << attempt, lastError, backoffs >>
loopv == << tick, voltage, reading >>
aux == << now, next_log_time, tickAt, lats, closeLog, sec, waits >>
det == << detFn, detCands, detEnv, detRes, replies, aux >>
mainv == << variant, inTry, ctl, conn, cmds, sinks, sd, rd, loopv >>
vars == << mainv, det >>

NoError == [kind |-> "none", attempt |-> 0, diag |-> ""]
NoEnv == [pyvisa |-> FALSE, usbtmc |-> FALSE, rmOk |-> FALSE, tmcProbe |-> ""]

\* main has not started
MainInit ==
    /\ pc = "start" /\ inTry = FALSE /\ exc = "none" /\ exitCause = "none" /\ sdRuns = 0
    /\ wtConn = "none" /\ dcConn = "none" /\ rmConn = "none" /\ wtRmConn = "none"
    /\ backend = "None" /\ leakedBy = {} /\ notFound = {}
    /\ wtCmds = <<>> /\ dcCmds = <<>> /\ outputOn = FALSE
    /\ csv = <<>> /\ plotPts = <<>> /\ plotSaved = 0
    /\ sdLog = <<>> /\ sdFailed = {}
    /\ tick = 0 /\ voltage = Num(0) /\ reading = NoReading
    /\ attempt = 0 /\ lastError = NoError /\ backoffs = 0

\* the clock and the driver on their own are not in use
AuxIdle ==
    /\ now = 0 /\ next_log_time = 0 /\ tickAt = <<>> /\ lats = <<>> /\ closeLog = <<>>
    /\ sec = 0 /\ waits = <<>>

DetIdle ==
    /\ detFn = "none" /\ detCands = <<>> /\ detEnv = NoEnv /\ detRes = NoDetection
    /\ replies = <<>> /\ AuxIdle

Init == variant \in Variants /\ MainInit /\ DetIdle

(***************************************************************************)
(* Control flow helpers.                                                   *)
(***************************************************************************)
\* the steps of each script's finally block, in the order of its text
SdOrder ==
    [charging   |-> << "sd_outp_off", "sd_dc_close", "sd_wt_close", "sd_plot", "sd_report" >>,
     main_test  |-> << "sd_outp_off", "sd_wt_close", "sd_dc_close", "sd_plot", "sd_report" >>,
     pc_working |-> << "sd_outp_off", "sd_wt_close", "sd_dc_close", "sd_plot", "sd_report" >>,
     working    |-> << "sd_outp_off", "sd_dc_close", "sd_wt_close", "sd_report" >>]

SdSteps == {"sd_outp_off", "sd_dc_close", "sd_wt_close", "sd_plot", "sd_report"}

AfterSd(v, step) ==
    LET o == SdOrder[v]
        i == CHOOSE k \in 1..Len(o) : o[k] = step
    IN  IF i < Len(o) THEN o[i + 1] ELSE "done"

Goto(p) == pc' = p /\ UNCHANGED << exc, exitCause, sdRuns >>

\* the finally block is entered: by break, by the except clause, or with e pending
EnterShutdown(cause, e) ==
    /\ pc' = SdOrder[variant][1]
    /\ exitCause' = cause
    /\ exc' = e
    /\ sdRuns' = sdRuns + 1

\* main ends here, with exception e ("none": a return)
Leave(cause, e) ==
    /\ pc' = "done"
    /\ exitCause' = cause
    /\ exc' = e
    /\ UNCHANGED sdRuns

\* a bug: only `except KeyboardInterrupt:`, no finally
RaiseNoFinally(kind, cause) ==
    IF inTry /\ kind = "KeyboardInterrupt"
    THEN EnterShutdown(cause, "none")
    ELSE Leave("crash", kind)

\* an exception is raised at the current statement: inside the try it runs
\* the finally block (KeyboardInterrupt is caught first), outside it ends main
Raise(kind, cause) ==
    IF inTry
    THEN EnterShutdown(cause, IF kind = "KeyboardInterrupt" THEN "none" ELSE kind)
    ELSE Leave("crash", kind)

Leaks(r) == (r.opened \ r.closed) \ {r.ret} # {}


(***************************************************************************)
(* main, up to the polling loop.                                           *)
(***************************************************************************)
\* charging.py: wt_port = detect_wt310e()
DetectMeterSerial ==
    /\ variant = "charging" /\ pc = "start"
    /\ \E cands \in CandLists(MaxCands) :
         LET r == detect_wt310e_serial(cands) IN
         /\ leakedBy' = IF Leaks(r) THEN leakedBy \cup {"meter"} ELSE leakedBy
         /\ notFound' = IF r.ret = 0 THEN {"meter"} ELSE {}
         /\ Goto(IF r.ret # 0 THEN "connect_wt" ELSE "detect_dc")
    /\ UNCHANGED << variant, inTry, wtConn, dcConn, rmConn, wtRmConn, backend,
                    cmds, sinks, sd, rd, loopv, det >>

\* main_test.py: wt = WT310E(); if not wt.connect(): return
ConnectDriver ==
    /\ variant = "main_test" /\ pc = "start"
    /\ \E cands \in CandLists(MaxCands), env \in ConnectEnv :
         LET r == connect(cands, env) IN
         /\ leakedBy' = IF Leaks(r) THEN leakedBy \cup {"meter"} ELSE leakedBy
         /\ notFound' = IF r.ret = 0 THEN {"meter"} ELSE {}
         /\ wtRmConn' = IF env.pyvisa /\ env.rmOk THEN "open" ELSE "none"
         /\ wtConn' = IF r.ret # 0 THEN "open" ELSE "none"
         /\ backend' = r.backend
         /\ IF r.ret # 0 THEN Goto("setup_wt") ELSE Leave("return", "none")
    /\ UNCHANGED << variant, inTry, dcConn, rmConn, cmds, sinks, sd, rd, loopv, det >>

\* charging_log_PC_working.py: rm = pyvisa.ResourceManager();
\* wt = detect_wt310e(rm); if not wt: return
DetectMeterVisa ==
    /\ variant = "pc_working" /\ pc = "start"
    /\ \E cands \in CandLists(MaxCands) :
         LET r == detect_wt310e_visa(cands) IN
         /\ leakedBy' = IF Leaks(r) THEN leakedBy \cup {"meter"} ELSE leakedBy
         /\ notFound' = IF r.ret = 0 THEN {"meter"} ELSE {}
         /\ wtConn' = IF r.ret # 0 THEN "open" ELSE "none"
         /\ IF r.ret # 0 THEN Goto("setup_wt") ELSE Leave("return", "none")
    /\ rmConn' = "open"
    /\ UNCHANGED << variant, inTry, dcConn, wtRmConn, backend, cmds, sinks, sd, rd,
                    loopv, det >>

\* connect_wt310e(com): the serial port, or None when opening it raises.
\* charging.py calls it only with a detected port and calls setup_wt310e only
\* on a port; charging_working.py calls both unconditionally
ConnectMeter ==
    /\ \/ variant = "charging" /\ pc = "connect_wt"
       \/ variant = "working" /\ pc = "start"
    /\ \E ok \in BOOLEAN :
         /\ wtConn' = IF ok THEN "open" ELSE "none"
         /\ notFound' = IF ~ok /\ variant = "working" THEN {"meter"} ELSE notFound
         /\ Goto(IF ok \/ variant = "working" THEN "setup_wt" ELSE "detect_dc")
    /\ UNCHANGED << variant, inTry, dcConn, rmConn, wtRmConn, backend, leakedBy,
                    cmds, sinks, sd, rd, loopv, det >>

\* setup_wt310e(ser) / wt.setup(): *RST, then the configuration commands.
\* On None (charging_working.py) the first write raises AttributeError
SetupMeter ==
    /\ pc = "setup_wt"
    /\ IF wtConn = "open"
       THEN wtCmds' = << "*RST", "CONFIG" >> /\ Goto("detect_dc")
       ELSE wtCmds' = wtCmds /\ Leave("crash", "AttributeError")
    /\ UNCHANGED << variant, inTry, conn, dcCmds, outputOn, sinks, sd, rd, loopv, det >>

\* rm, dc = detect_spe6103() / dc = detect_spe6103(rm); if not dc: return
DetectSource ==
    /\ variant # "working" /\ pc = "detect_dc"
    /\ \E cands \in CandLists(MaxCands) :
         LET r == detect_spe6103(cands) IN
         /\ leakedBy' = leakedBy \cup (IF Leaks(r) THEN {"source"} ELSE {})
                                 \cup (IF variant = "charging" /\ r.ret = 0 THEN {"rm"} ELSE {})
         /\ notFound' = IF r.ret = 0 THEN notFound \cup {"source"} ELSE notFound
         /\ dcConn' = IF r.ret # 0 THEN "open" ELSE "none"
         /\ rmConn' = IF variant = "charging" /\ r.ret = 0 THEN "none" ELSE "open"
         /\ IF r.ret # 0 THEN Goto("dc_volt") ELSE Leave("return", "none")
    /\ UNCHANGED << variant, inTry, wtConn, wtRmConn, backend, cmds, sinks, sd, rd,
                    loopv, det >>

\* charging_working.py: rm, dc = connect_spe6103(): (None, None) when the
\* open or the *IDN? query raises; the script goes on either way
ConnectSource ==
    /\ variant = "working" /\ pc = "detect_dc"
    /\ \E probe \in {"open_fail", "query_fail", "ok"} :
         /\ notFound' = IF probe # "ok" THEN notFound \cup {"source"} ELSE notFound
         /\ dcConn' = IF probe = "ok" THEN "open" ELSE "none"
         /\ rmConn' = IF probe = "ok" THEN "open" ELSE "none"
         /\ leakedBy' = leakedBy \cup (IF probe = "query_fail" THEN {"source"} ELSE {})
                                 \cup (IF probe # "ok" THEN {"rm"} ELSE {})
    /\ Goto("dc_volt")
    /\ UNCHANGED << variant, inTry, wtConn, wtRmConn, backend, cmds, sinks, sd, rd,
                    loopv, det >>

\* dc.write(f"VOLT {SET_VOLTAGE:.2f}"); on None it raises AttributeError
WriteVolt ==
    /\ pc = "dc_volt"
    /\ IF dcConn = "open"
       THEN /\ dcCmds' = Append(dcCmds, "VOLT")
            /\ Goto(IF variant = "working" THEN "dc_on" ELSE "dc_curr")
       ELSE dcCmds' = dcCmds /\ Leave("crash", "AttributeError")
    /\ UNCHANGED << variant, inTry, conn, wtCmds, outputOn, sinks, sd, rd, loopv, det >>

\* dc.write(f"CURR {SET_CURRENT:.2f}")
WriteCurr ==
    /\ pc = "dc_curr"
    /\ dcCmds' = Append(dcCmds, "CURR")
    /\ Goto("dc_on")
    /\ UNCHANGED << variant, inTry, conn, wtCmds, outputOn, sinks, sd, rd, loopv, det >>

\* dc.write("OUTP ON")
WriteOutpOn ==
    /\ pc = "dc_on"
    /\ dcCmds' = Append(dcCmds, "OUTP ON")
    /\ outputOn' = TRUE
    /\ Goto("stabilize")
    /\ UNCHANGED << variant, inTry, conn, wtCmds, sinks, sd, rd, loopv, det >>

\* time.sleep(STABILIZING_TIME) (time.sleep(2) in charging_working.py)
Stabilize ==
    /\ pc = "stabilize"
    /\ Goto("csv_header")
    /\ UNCHANGED << variant, inTry, conn, cmds, sinks, sd, rd, loopv, det >>

\* with open(csv_file, "w") as f: csv.writer(f).writerow(CSV_HEADERS)
WriteHeader ==
    /\ pc = "csv_header"
    /\ csv' = << HeaderLine(IF variant = "working" THEN CSV_HEADERS_4 ELSE CSV_HEADERS) >>
    /\ Goto(IF variant = "working" THEN "first_row" ELSE "plot_setup")
    /\ UNCHANGED << variant, inTry, conn, cmds, plotPts, plotSaved, sd, rd, loopv, det >>

\* plt.ion() ... ax.legend(); start_time = time.time(); (charging.py:
\* next_log_time = start_time; voltage = 0.0); try:
PlotSetup ==
    /\ pc = "plot_setup"
    /\ inTry' = TRUE
    /\ voltage' = Num(0)
    /\ Goto("loop_top")
    /\ UNCHANGED << variant, conn, cmds, sinks, sd, rd, tick, reading, det >>


(***************************************************************************)
(* The polling loop.                                                       *)
(***************************************************************************)
\* a tick starts: the loop body is entered (charging.py: now >= next_log_time),
\* or charging_working.py calls log_row for the first reading or after
\* wait_until_next_10sec_tick()
BeginTick ==
    /\ \/ variant # "working" /\ pc = "loop_top"
       \/ variant = "working" /\ pc \in {"first_row", "wait_tick"}
    /\ tick < MaxTicks
    /\ tick' = tick + 1
    /\ reading' = NoReading
    /\ attempt' = IF variant = "charging" THEN 1 ELSE 0
    /\ lastError' = NoError
    /\ backoffs' = 0
    /\ Goto("read_wt")
    /\ UNCHANGED << variant, inTry, conn, cmds, sinks, sd, voltage, det >>

\* a bug: the loop falls through without the raise and the caller goes on
ReadExhaustedSilent == Goto("q_volt")

\* read_wt310e after its loop: raise RuntimeError(last_error or ...)
ReadExhausted == Raise("RuntimeError", "error")

\* a bug: range(1, retries), one attempt short
MoreAttemptsShort(a) == a < retries - 1

\* for attempt in range(1, retries + 1): another pass follows attempt a
MoreAttempts(a) == a < retries

\* charging.py, read_wt310e: one pass of the retry loop, on the replies qs
\* to its queries.  A failed pass records last_error and sleeps 0.2 s
ReadAttemptOn(qs) ==
    /\ variant = "charging" /\ pc = "read_wt"
    /\ LET o == AttemptOutcome(qs, wtConn = "open") IN
         IF o.kind = "ok"
         THEN /\ reading' = o.r
              /\ Goto("q_volt")
              /\ UNCHANGED << attempt, lastError, backoffs >>
         ELSE /\ lastError' = [kind |-> o.kind, attempt |-> attempt, diag |-> o.diag]
              /\ backoffs' = backoffs + 1
              /\ reading' = reading
              /\ IF MoreAttempts(attempt)
                 THEN attempt' = attempt + 1 /\ Goto("read_wt")
                 ELSE attempt' = attempt /\ ReadExhausted
    /\ UNCHANGED << variant, inTry, conn, cmds, sinks, sd, tick, voltage, det >>

ReadAttempt ==
    /\ variant = "charging" /\ pc = "read_wt"
    /\ \E qs \in [1..BlankSkips -> QueryReplies] : ReadAttemptOn(qs)

\* main_test.py (wt.read()) and charging_log_PC_working.py (read_wt310e(wt)):
\* a single query, no retry
ReadMeterOnce ==
    /\ variant \in {"main_test", "pc_working"} /\ pc = "read_wt"
    /\ \E q \in QueryReplies :
         LET o == ReadOnce(q) IN
         IF o.kind = "ok"
         THEN reading' = o.r /\ Goto("q_volt")
         ELSE reading' = reading /\ Raise(o.kind, "error")
    /\ UNCHANGED << variant, inTry, conn, cmds, sinks, sd, rd, tick, voltage, det >>

\* charging_working.py, log_row: v, i, p = read_wt310e(ser), no retry
ReadMeterThree ==
    /\ variant = "working" /\ pc = "read_wt"
    /\ \E q \in QueryReplies :
         LET o == ReadThree(q) IN
         IF o.kind = "ok"
         THEN reading' = o.r /\ Goto("csv_row")
         ELSE reading' = reading /\ Raise(o.kind, "error")
    /\ UNCHANGED << variant, inTry, conn, cmds, sinks, sd, rd, tick, voltage, det >>

\* a bug: the row is written before the DC source is queried, so a failed
\* query leaves a row behind
QuerySourceAfterRow(at, next) ==
    /\ pc = at
    /\ \E ok \in BOOLEAN :
         IF ok THEN Goto(next) /\ csv' = csv
         ELSE Raise("VisaIOError", "error")
              /\ csv' = Append(csv, LogRowLine(variant, tick, reading))
    /\ UNCHANGED << variant, inTry, conn, cmds, plotPts, plotSaved, sd, rd, loopv, det >>

\* Iv = float(dc.query("MEAS:VOLT?")) and the two queries after it
QuerySource(at, next) ==
    /\ pc = at
    /\ \E ok \in BOOLEAN : IF ok THEN Goto(next) ELSE Raise("VisaIOError", "error")
    /\ UNCHANGED << variant, inTry, conn, cmds, sinks, sd, rd, loopv, det >>

QueryVolt == QuerySource("q_volt", "q_curr")
QueryCurr == QuerySource("q_curr", "q_pow")
QueryPow == QuerySource("q_pow", "csv_row")

\* the row is appended to the CSV file.  charging_working.py's log_row returns
\* here (voltage = log_row(ser)); its first call is before the try
AppendRow ==
    /\ pc = "csv_row"
    /\ csv' = Append(csv, LogRowLine(variant, tick, reading))
    /\ IF variant = "working"
       THEN /\ voltage' = reading.Ov
            /\ inTry' = TRUE
            /\ Goto(IF inTry THEN "check_stop" ELSE "loop_test")
       ELSE /\ UNCHANGED << voltage, inTry >>
            /\ Goto("plot_upd")
    /\ UNCHANGED << variant, conn, cmds, plotPts, plotSaved, sd, rd, tick, reading, det >>

\* update_plot(elapsed, Ov, output_current); charging.py's log_row returns Ov
\* after it (voltage = log_row())
UpdatePlot ==
    /\ pc = "plot_upd"
    /\ plotPts' = Append(plotPts, PlotPoint(reading))
    /\ voltage' = IF variant = "charging" THEN reading.Ov ELSE voltage
    /\ Goto("check_stop")
    /\ UNCHANGED << variant, inTry, conn, cmds, csv, plotSaved, sd, rd, tick, reading, det >>

\* the value the stop test compares: charging.py and charging_working.py test
\* `voltage`, the other two test Ov
StopValue == IF variant \in {"charging", "working"} THEN voltage ELSE reading.Ov

\* a bug: the stop condition is reported but the loop is not left
CheckStopNoBreak ==
    /\ pc = "check_stop"
    /\ Goto(IF variant = "working" THEN "loop_test" ELSE "sleep")
    /\ UNCHANGED << variant, inTry, conn, cmds, sinks, sd, rd, loopv, det >>

\* if voltage >= STOP_VOLTAGE: break
CheckStop ==
    /\ pc = "check_stop"
    /\ IF Ge(StopValue, Num(STOP_VOLTAGE[variant]))
       THEN EnterShutdown("threshold", "none")
       ELSE Goto(IF variant = "working" THEN "loop_test" ELSE "sleep")
    /\ UNCHANGED << variant, inTry, conn, cmds, sinks, sd, rd, loopv, det >>

\* charging_working.py: while voltage < STOP_VOLTAGE:
WhileTest ==
    /\ variant = "working" /\ pc = "loop_test"
    /\ IF Lt(voltage, Num(STOP_VOLTAGE[variant]))
       THEN Goto("wait_tick")
       ELSE EnterShutdown("threshold", "none")
    /\ UNCHANGED << variant, inTry, conn, cmds, sinks, sd, rd, loopv, det >>

\* time.sleep(LOG_INTERVAL) (charging.py: time.sleep(0.1) until the next tick is due)
Sleep ==
    /\ pc = "sleep"
    /\ Goto("loop_top")
    /\ UNCHANGED << variant, inTry, conn, cmds, sinks, sd, rd, loopv, det >>

\* the statements a KeyboardInterrupt can arrive at: all of main before the
\* finally block
Interruptible == pc \notin SdSteps \cup {"done"}

\* Ctrl-C
Interrupt ==
    /\ Interruptible
    /\ Raise("KeyboardInterrupt", "interrupt")
    /\ UNCHANGED << variant, inTry, conn, cmds, sinks, sd, rd, loopv, det >>


(***************************************************************************)
(* The shutdown sequence (each script's finally block).                    *)
(***************************************************************************)
SdNext(step) == pc' = AfterSd(variant, step) /\ UNCHANGED << exc, exitCause, sdRuns >>

\* an exception leaves the finally block: it replaces a pending one
SdPropagate(e) == pc' = "done" /\ exc' = e /\ UNCHANGED << exitCause, sdRuns >>

Failed(step, ok) == IF ok THEN sdFailed ELSE sdFailed \cup {step}

\* try: dc.write("OUTP OFF") except: pass
SdOutpOff ==
    /\ pc = "sd_outp_off"
    /\ \E ok \in BOOLEAN :
         /\ outputOn' = IF ok THEN FALSE ELSE outputOn
         /\ sdFailed' = Failed("outp_off", ok)
    /\ dcCmds' = Append(dcCmds, "OUTP OFF")
    /\ sdLog' = Append(sdLog, "outp_off")
    /\ SdNext("sd_outp_off")
    /\ UNCHANGED << variant, inTry, conn, wtCmds, sinks, rd, loopv, det >>

\* the meter is closed: ser.close() / wt.close() inside try/except, or
\* main_test.py's bare wt.close(), which WT310E.close guards itself (the
\* instrument and the driver's resource manager apart)
SdCloseMeter ==
    /\ pc = "sd_wt_close"
    /\ \E ok \in BOOLEAN, okRm \in BOOLEAN :
         /\ ok => wtConn = "open"
         /\ okRm => wtRmConn = "open"
         /\ wtConn' = IF ok THEN "closed" ELSE wtConn
         /\ wtRmConn' = IF okRm THEN "closed" ELSE wtRmConn
         /\ sdFailed' = Failed("wt_close", ok)
    /\ sdLog' = Append(sdLog, "wt_close")
    /\ SdNext("sd_wt_close")
    /\ UNCHANGED << variant, inTry, dcConn, rmConn, backend, leakedBy, notFound, cmds,
                    sinks, rd, loopv, det >>

\* try: dc.close(); rm.close() except: pass -- one guard around both
SdCloseSource ==
    /\ pc = "sd_dc_close"
    /\ \E ok \in BOOLEAN, okRm \in BOOLEAN :
         /\ ~ok => okRm
         /\ dcConn' = IF ok THEN "closed" ELSE dcConn
         /\ rmConn' = IF ok /\ okRm THEN "closed" ELSE rmConn
         /\ sdFailed' = Failed("rm_close", ~ok \/ okRm) \cup Failed("dc_close", ok)
         /\ sdLog' = sdLog \o (IF ok THEN << "dc_close", "rm_close" >> ELSE << "dc_close" >>)
    /\ SdNext("sd_dc_close")
    /\ UNCHANGED << variant, inTry, wtConn, wtRmConn, backend, leakedBy, notFound, cmds,
                    sinks, rd, loopv, det >>

\* the plot is finalized.  charging.py: try: plt.ioff(); plt.close(fig)
\* except: pass.  main_test.py: fig.savefig(graph_file, ...); plt.ioff();
\* plt.close(fig), unguarded.  charging_log_PC_working.py: plt.ioff();
\* plt.close(fig), unguarded
SdPlot ==
    /\ pc = "sd_plot"
    /\ \E ok \in BOOLEAN :
         /\ plotSaved' = IF variant = "main_test" /\ ok THEN plotSaved + 1 ELSE plotSaved
         /\ sdFailed' = Failed("plot", ok)
         /\ sdLog' = Append(sdLog, "plot")
         /\ IF ok \/ variant = "charging"
            THEN SdNext("sd_plot")
            ELSE SdPropagate("CleanupError")
    /\ UNCHANGED << variant, inTry, conn, cmds, csv, plotPts, rd, loopv, det >>

\* print(f"CSV Saved: {csv_file}")
SdReport ==
    /\ pc = "sd_report"
    /\ sdLog' = Append(sdLog, "report")
    /\ sdFailed' = sdFailed
    /\ SdNext("sd_report")
    /\ UNCHANGED << variant, inTry, conn, cmds, sinks, rd, loopv, det >>

(***************************************************************************)
(* The specification of a run of one script.                               *)
(***************************************************************************)
Next ==
    \/ DetectMeterSerial \/ ConnectDriver \/ DetectMeterVisa \/ ConnectMeter
    \/ SetupMeter \/ DetectSource \/ ConnectSource
    \/ WriteVolt \/ WriteCurr \/ WriteOutpOn \/ Stabilize \/ WriteHeader \/ PlotSetup
    \/ BeginTick \/ ReadAttempt \/ ReadMeterOnce \/ ReadMeterThree
    \/ QueryVolt \/ QueryCurr \/ QueryPow \/ AppendRow \/ UpdatePlot
    \/ CheckStop \/ WhileTest \/ Sleep \/ Interrupt
    \/ SdOutpOff \/ SdCloseMeter \/ SdCloseSource \/ SdPlot \/ SdReport

Spec == Init /\ [][Next]_vars

(***************************************************************************)
(* Detection on its own: each detection function applied to every list of  *)
(* candidate endpoints.                                                    *)
(***************************************************************************)
InitDetect ==
    /\ variant = "main_test" /\ MainInit
    /\ detFn = "none" /\ detCands \in CandLists(MaxCands)
    /\ detEnv = NoEnv /\ detRes = NoDetection /\ replies = <<>> /\ AuxIdle

ApplyDetect(fn, r) ==
    /\ detFn = "none"
    /\ detFn' = fn
    /\ detRes' = r
    /\ UNCHANGED << detCands, detEnv, replies, aux, mainv >>

ApplyDetectSpe == ApplyDetect("detect_spe6103", detect_spe6103(detCands))
ApplyDetectWtVisa == ApplyDetect("detect_wt310e_visa", detect_wt310e_visa(detCands))
ApplyDetectWtSerial == ApplyDetect("detect_wt310e_serial", detect_wt310e_serial(detCands))

ApplyConnect ==
    /\ detFn = "none"
    /\ \E env \in ConnectEnv :
         /\ detEnv' = env
         /\ detRes' = connect(detCands, env)
    /\ detFn' = "connect"
    /\ UNCHANGED << detCands, replies, aux, mainv >>

NextDetect == ApplyDetectSpe \/ ApplyDetectWtVisa \/ ApplyDetectWtSerial \/ ApplyConnect

SpecDetect == InitDetect /\ [][NextDetect]_vars


(***************************************************************************)
(* read_wt310e on its own: one call of it in charging.py's polling loop,   *)
(* on every script of replies, and what main does with its result.         *)
(***************************************************************************)
ReplyA == << "8.00", "1.50", "12.00" >>
ReplyC == << "8.35", "-1.50", "12.00" >>

\* the replies to the (up to three) queries of one attempt
AttemptInputs ==
    { << EmptyLine, EmptyLine, EmptyLine >>,
      << EmptyLine, EmptyLine, ReplyC >>,
      << << "8.00", "1.50" >>, EmptyLine, EmptyLine >>,
      << << "8.00", "x", "12.00" >>, EmptyLine, EmptyLine >>,
      << EmptyLine, CommError, ReplyA >>,
      << << "8.00", "1.50", "12.00", "x" >>, EmptyLine, EmptyLine >> }

EarlierRows(t) == [k \in 1..(t - 1) |-> Row7(k, Reading(Num(800), Num(150), Num(1200)))]
EarlierPoints(t) == [k \in 1..(t - 1) |-> PlotPoint(Reading(Num(800), Num(150), Num(1200)))]

\* charging.py's main when the log_row of tick t calls read_wt310e: both
\* instruments set up, the output on, the earlier ticks logged below the stop
\* voltage (a run whose meter is missing reaches its first tick only)
AtRead(t, meter) ==
    /\ variant = "charging" /\ pc = "read_wt" /\ inTry = TRUE
    /\ exc = "none" /\ exitCause = "none" /\ sdRuns = 0
    /\ wtConn = meter /\ dcConn = "open" /\ rmConn = "open" /\ wtRmConn = "none"
    /\ backend = "None" /\ leakedBy = {}
    /\ notFound = IF meter = "open" THEN {} ELSE {"meter"}
    /\ wtCmds = IF meter = "open" THEN << "*RST", "CONFIG" >> ELSE <<>>
    /\ dcCmds = << "VOLT", "CURR", "OUTP ON" >> /\ outputOn = TRUE
    /\ csv = << HeaderLine(CSV_HEADERS) >> \o EarlierRows(t)
    /\ plotPts = EarlierPoints(t) /\ plotSaved = 0
    /\ sdLog = <<>> /\ sdFailed = {}
    /\ tick = t /\ reading = NoReading
    /\ voltage = IF t = 1 THEN Num(0) ELSE Num(800)
    /\ attempt = 1 /\ lastError = NoError /\ backoffs = 0

InitRead ==
    /\ detFn = "none" /\ detCands = <<>> /\ detEnv = NoEnv /\ detRes = NoDetection
    /\ AuxIdle
    /\ replies \in [1..retries -> AttemptInputs]
    /\ \/ \E t \in 1..MaxTicks : AtRead(t, "open")
       \/ AtRead(1, "none")

ReadAttemptScripted == ReadAttemptOn(replies[attempt])

NextRead ==
    \/ ReadAttemptScripted
    \/ QueryVolt \/ QueryCurr \/ QueryPow \/ AppendRow
    \/ SdOutpOff \/ SdCloseMeter \/ SdCloseSource \/ SdPlot \/ SdReport

SpecRead == InitRead /\ [][NextRead]_vars


(***************************************************************************)
(* The clock of charging.py's polling loop on its own: every pass of the   *)
(* loop, with log_row taking any of a few latencies.                       *)
(***************************************************************************)
\* how long one log_row takes: 0.55 s, 9.5 s, 10.5 s, 25 s (a read that needed
\* its retries and their timeouts)
Latencies == {11, 190, 210, 500}

\* a bug: the ticks missed during an overrun are dropped, the next tick is
\* the first scheduled one after the end of this one
NextDueSkipping(due, after) ==
    due + LOG_INTERVAL * (IF after > due THEN (after - due) \div LOG_INTERVAL + 1 ELSE 1)

\* a bug: the next tick is scheduled relative to the end of this one
NextDueRelative(due, after) == after + LOG_INTERVAL

\* next_log_time += LOG_INTERVAL
NextDue(due, after) == due + LOG_INTERVAL

\* start_time = time.time(); next_log_time = start_time (times are counted
\* from start_time)
InitSched ==
    /\ variant = "charging" /\ MainInit
    /\ detFn = "none" /\ detCands = <<>> /\ detEnv = NoEnv /\ detRes = NoDetection
    /\ replies = <<>> /\ closeLog = <<>> /\ sec = 0 /\ waits = <<>>
    /\ now = 0 /\ next_log_time = 0 /\ tickAt = <<>> /\ lats = <<>>

\* a pass of the loop with now >= next_log_time: voltage = log_row();
\* next_log_time += LOG_INTERVAL; time.sleep(0.1)
SchedTick ==
    /\ now >= next_log_time /\ Len(tickAt) < MaxSchedTicks
    /\ \E lat \in Latencies :
         /\ tickAt' = Append(tickAt, now)
         /\ lats' = Append(lats, lat)
         /\ next_log_time' = NextDue(next_log_time, now + lat)
         /\ now' = now + lat + YieldSleep
    /\ UNCHANGED << mainv, detFn, detCands, detEnv, detRes, replies, closeLog, sec, waits >>

\* a pass of the loop before the next tick is due: time.sleep(0.1)
SchedIdle ==
    /\ now < next_log_time /\ Len(tickAt) < MaxSchedTicks
    /\ now' = now + YieldSleep
    /\ UNCHANGED << next_log_time, tickAt, lats >>
    /\ UNCHANGED << mainv, detFn, detCands, detEnv, detRes, replies, closeLog, sec, waits >>

NextSched == SchedTick \/ SchedIdle

SpecSched == InitSched /\ [][NextSched]_vars


(***************************************************************************)
(* WT310E.close on its own: called again and again on a driver in any of   *)
(* the states connect() (or no connect at all) leaves it in.               *)
(***************************************************************************)
\* self.inst, self.rm and self.backend after WT310E() alone
NewDriver == [inst |-> "none", rm |-> "none", backend |-> "None"]

\* ... and after connect() on candidates cands in environment env: self.rm is
\* set as soon as pyvisa.ResourceManager() returned
DriverAfter(cands, env) ==
    LET r == connect(cands, env) IN
    [inst |-> IF r.ret # 0 THEN "open" ELSE "none",
     rm |-> IF env.pyvisa /\ env.rmOk THEN "open" ELSE "none",
     backend |-> r.backend]

DriverStates ==
    {NewDriver} \cup {DriverAfter(cands, env) : cands \in CandLists(1), env \in ConnectEnv}

InitClose ==
    /\ variant = "main_test"
    /\ pc = "start" /\ inTry = FALSE /\ exc = "none" /\ exitCause = "none" /\ sdRuns = 0
    /\ \E d \in DriverStates : wtConn = d.inst /\ wtRmConn = d.rm /\ backend = d.backend
    /\ dcConn = "none" /\ rmConn = "none" /\ leakedBy = {} /\ notFound = {}
    /\ wtCmds = <<>> /\ dcCmds = <<>> /\ outputOn = FALSE
    /\ csv = <<>> /\ plotPts = <<>> /\ plotSaved = 0
    /\ sdLog = <<>> /\ sdFailed = {}
    /\ tick = 0 /\ voltage = Num(0) /\ reading = NoReading
    /\ attempt = 0 /\ lastError = NoError /\ backoffs = 0
    /\ DetIdle

\* what x.close() can do on a handle in state h: on None the attribute
\* access raises; an open or an already closed handle closes or raises
CloseOutcomes(h) == IF h = "none" THEN {"raised"} ELSE {"ok", "raised"}

\* a bug: no try/except around the closes
ClosePropagatesUnguarded(raised) == raised

\* try: ... except: pass -- nothing a close raises leaves WT310E.close
ClosePropagates(raised) == FALSE

\* WT310E.close(): try: self.inst.close() except: pass;
\* try: if self.rm: self.rm.close() except: pass
CloseDriver ==
    /\ Len(closeLog) < MaxCloses /\ exc = "none"
    /\ \E o1 \in CloseOutcomes(wtConn),
          o2 \in IF wtRmConn = "none" THEN {"skipped"} ELSE CloseOutcomes(wtRmConn) :
         /\ wtConn' = IF o1 = "ok" THEN "closed" ELSE wtConn
         /\ wtRmConn' = IF o2 = "ok" THEN "closed" ELSE wtRmConn
         /\ closeLog' = Append(closeLog, [inst |-> o1, rm |-> o2, was |-> wtConn])
         /\ exc' = IF ClosePropagates(o1 = "raised" \/ o2 = "raised")
                   THEN "CleanupError" ELSE exc
    /\ UNCHANGED << variant, inTry, pc, exitCause, sdRuns, dcConn, rmConn, backend,
                    leakedBy, notFound, cmds, sinks, sd, rd, loopv >>
    /\ UNCHANGED << detFn, detCands, detEnv, detRes, replies, now, next_log_time,
                    tickAt, lats, sec, waits >>

\* main_test.py's finally calls wt.close() at this point of a shutdown; here
\* it is the only step
NextClose == CloseDriver

SpecClose == InitClose /\ [][NextClose]_vars


(***************************************************************************)
(* The polling loop and the shutdown of charging.py, main_test.py and      *)
(* charging_log_PC_working.py on their own, from the entry of the try      *)
(* statement, with no KeyboardInterrupt.  The interpreter goes on to the   *)
(* next statement as long as there is one.                                 *)
(***************************************************************************)
\* main on entering the try: both instruments set up, the output on, the
\* header written.  main_test.py's driver is in any state connect() returned
\* True in
InitLoop ==
    /\ variant \in {"charging", "main_test", "pc_working"}
    /\ pc = "loop_top" /\ inTry = TRUE /\ exc = "none" /\ exitCause = "none" /\ sdRuns = 0
    /\ wtConn = "open" /\ dcConn = "open" /\ rmConn = "open"
    /\ IF variant = "main_test"
       THEN \E d \in DriverStates :
                d.inst = "open" /\ wtRmConn = d.rm /\ backend = d.backend
       ELSE wtRmConn = "none" /\ backend = "None"
    /\ leakedBy = {} /\ notFound = {}
    /\ wtCmds = << "*RST", "CONFIG" >>
    /\ dcCmds = << "VOLT", "CURR", "OUTP ON" >> /\ outputOn = TRUE
    /\ csv = << HeaderLine(CSV_HEADERS) >> /\ plotPts = <<>> /\ plotSaved = 0
    /\ sdLog = <<>> /\ sdFailed = {}
    /\ tick = 0 /\ voltage = Num(0) /\ reading = NoReading
    /\ attempt = 0 /\ lastError = NoError /\ backoffs = 0
    /\ DetIdle

NextLoop ==
    \/ BeginTick \/ ReadAttempt \/ ReadMeterOnce
    \/ QueryVolt \/ QueryCurr \/ QueryPow \/ AppendRow \/ UpdatePlot
    \/ CheckStop \/ Sleep
    \/ SdOutpOff \/ SdCloseMeter \/ SdCloseSource \/ SdPlot \/ SdReport

SpecLoop == InitLoop /\ [][NextLoop]_vars /\ WF_vars(NextLoop)


(***************************************************************************)
(* charging_working.py's wait_until_next_10sec_tick on its own: called     *)
(* again and again, at any second of the minute.                           *)
(***************************************************************************)
\* LOG_INTERVAL of charging_working.py, in seconds
LOG_INTERVAL_S == 10

\* datetime.now().second
Seconds == 0..59

\* by how much the clock's second has advanced when the function is called
\* again: log_row and the loop's test took that long
RowSeconds == {0, 1, 3}

\* a bug: no `if wait == LOG_INTERVAL: wait = 0`
WaitWithoutZeroCase(s) == LOG_INTERVAL_S - (s % LOG_INTERVAL_S)

\* remainder = sec % LOG_INTERVAL; wait = LOG_INTERVAL - remainder;
\* if wait == LOG_INTERVAL: wait = 0 -- the seconds given to time.sleep
wait_until_next_10sec_tick(s) ==
    LET remainder == s % LOG_INTERVAL_S
        wait == LOG_INTERVAL_S - remainder
    IN  IF wait = LOG_INTERVAL_S THEN 0 ELSE wait

InitWait ==
    /\ variant = "working" /\ MainInit
    /\ detFn = "none" /\ detCands = <<>> /\ detEnv = NoEnv /\ detRes = NoDetection
    /\ replies = <<>>
    /\ now = 0 /\ next_log_time = 0 /\ tickAt = <<>> /\ lats = <<>> /\ closeLog = <<>>
    /\ sec \in Seconds /\ waits = <<>>

\* wait_until_next_10sec_tick(); voltage = log_row(ser); back in the loop
WaitTick ==
    /\ Len(waits) < MaxWaits
    /\ LET w == wait_until_next_10sec_tick(sec) IN
         /\ waits' = Append(waits, [sec |-> sec, wait |-> w])
         /\ \E d \in RowSeconds : sec' = (sec + w + d) % Cardinality(Seconds)
    /\ UNCHANGED << mainv, detFn, detCands, detEnv, detRes, replies, now, next_log_time,
                    tickAt, lats, closeLog >>

NextWait == WaitTick

SpecWait == InitWait /\ [][NextWait]_vars


(***************************************************************************)
(* Properties.                                                             *)
(***************************************************************************)
InLog(step) == \E i \in 1..Len(sdLog) : sdLog[i] = step
Written(cmd) == \E i \in 1..Len(dcCmds) : dcCmds[i] = cmd
Times(log, x) == Cardinality({i \in 1..Len(log) : log[i] = x})
Ended == pc \in SdSteps \cup {"done"}
LoopExits == {"threshold", "interrupt", "error"}

\* C1: in charging.py and main_test.py every way of leaving the polling loop
\* (stop voltage reached, KeyboardInterrupt, an exception of a read) enters the
\* shutdown sequence, exactly once, and the sequence starts by writing
\* OUTP OFF to the DC source, once, before main ends.
C1_LoopExitRunsShutdownOnce ==
    variant \in {"charging", "main_test"} =>
        /\ sdRuns <= 1
        /\ exitCause \in LoopExits => sdRuns = 1 /\ Ended
        /\ inTry /\ Ended => exitCause \in LoopExits /\ sdRuns = 1
        /\ sdRuns = 1 /\ pc # "sd_outp_off" =>
               /\ Times(dcCmds, "OUTP OFF") = 1
               /\ sdLog[1] = "outp_off"
               /\ Times(sdLog, "outp_off") = 1

\* a read of an instrument raised in the loop and main has ended, after the
\* shutdown sequence
C1_Witness ==
    /\ variant \in {"charging", "main_test"} /\ pc = "done"
    /\ exitCause = "error" /\ exc # "none" /\ sdRuns = 1 /\ Written("OUTP OFF")

\* C2: in charging.py a KeyboardInterrupt that arrives at any point after
\* OUTP ON was written leads to the shutdown sequence (OUTP OFF attempted,
\* transports closed), not to main ending with the output still on.
C2_InterruptAfterOutpOnShutsDown ==
    ( /\ variant = "charging" /\ pc = "done" /\ Written("OUTP ON")
      /\ (exitCause = "interrupt" \/ exc = "KeyboardInterrupt") )
    => sdRuns = 1 /\ Written("OUTP OFF") /\ InLog("dc_close") /\ InLog("wt_close")

\* C3: in main_test.py's shutdown sequence every step is guarded on its own:
\* whatever steps fail, all the steps run (both transports and the resource
\* manager get their close, the plot is saved, the CSV path is reported) and
\* no failure of a cleanup step leaves main.
C3_ShutdownStepsIndependentlyGuarded ==
    (variant = "main_test" /\ pc = "done" /\ sdRuns = 1) =>
        /\ \A step \in {"outp_off", "wt_close", "dc_close", "rm_close", "plot", "report"} :
               InLog(step)
        /\ exc # "CleanupError"

\* a candidate that passes the name filter of detection function fn and whose
\* identification reply holds the marker fn looks for
MatchesMarker(fn, c) ==
    CASE fn = "detect_spe6103" -> IsAsrlInstr(c.name) /\ HasSpeOr6103(c.probe)
      [] fn = "detect_wt310e_visa" -> HasUSB(c.name) /\ (HasYokogawa(c.probe) \/ HasWT310(c.probe))
      [] fn = "detect_wt310e_serial" -> HasYokogawa(c.probe) \/ HasWT310(c.probe)
      [] fn = "connect" -> detEnv.pyvisa /\ detEnv.rmOk /\ HasUSB(c.name) /\ HasYokogawa(c.probe)
      [] OTHER -> FALSE

MatchingCands == {i \in 1..Len(detCands) : MatchesMarker(detFn, detCands[i])}

\* WT310E.connect also probes the one USBTMC address
UsbtmcMatches == detFn = "connect" /\ detEnv.usbtmc /\ HasYokogawa(detEnv.tmcProbe)

\* C4: when no candidate matches the expected marker, detection returns
\* not-found and every handle it opened has been closed when it returns
\* (detect_spe6103, detect_wt310e, WT310E.connect).
C4_NotFoundLeavesNoHandleOpen ==
    (detFn # "none" /\ MatchingCands = {} /\ ~UsbtmcMatches) =>
        detRes.ret = 0 /\ detRes.opened \subseteq detRes.closed

\* C5: an open or query failure on one candidate never ends the probing of
\* the others: when a candidate would match, detection returns the first such
\* candidate (WT310E.connect: through VISA).
C5_BadCandidateNeverAbortsDetection ==
    (detFn # "none" /\ MatchingCands # {}) =>
        /\ detRes.ret = CHOOSE i \in MatchingCands : \A j \in MatchingCands : i <= j
        /\ detFn = "connect" => detRes.backend = "VISA"

\* C6: when the power meter or the DC source is not detected, main ends
\* without having written a reset, configuration, setpoint or output-enable
\* command to either instrument.
C6_NothingConfiguredOnDetectionFailure ==
    (pc = "done" /\ notFound # {}) => wtCmds = <<>> /\ dcCmds = <<>>

\* the reply attempt a of the scripted read_wt310e call ends with: the first
\* non-blank line of its queries
Response(a) == RawLineFrom(replies[a], 1)

\* a non-empty, well-formed reply: three non-empty comma-separated fields
\* at least, the first three numeric
WellFormed(line) ==
    /\ line # EmptyLine /\ line # CommError
    /\ LET parts == SelectSeq(line, LAMBDA f : f # "") IN
         Len(parts) >= 3 /\ \A k \in 1..3 : IsFloat(parts[k])

Triple(line) ==
    LET parts == SelectSeq(line, LAMBDA f : f # "") IN
    Reading(Float(parts[1]), Float(parts[2]), Float(parts[3]))

GoodAttempt(a) == wtConn # "none" /\ WellFormed(Response(a))

\* the diagnostic of a failed attempt
Diagnostic(a) ==
    IF wtConn = "none" \/ Response(a) = CommError THEN "exception"
    ELSE IF Response(a) = EmptyLine THEN "empty response line"
    ELSE IF Len(SelectSeq(Response(a), LAMBDA f : f # "")) < 3 THEN "incomplete response"
    ELSE "could not convert string to float"

ReadReturned == pc \in {"q_volt", "q_curr", "q_pow", "csv_row", "plot_upd"}
ReadRaised == exc = "RuntimeError"

\* C7: read_wt310e (charging.py) makes at most 5 attempts, returns the parsed
\* triple of the first attempt whose reply is non-empty and well-formed, sleeps
\* the 0.2 s backoff after each failed attempt, and raises the read failure,
\* carrying the diagnostic of the last failed attempt, exactly when all 5 fail.
C7_BoundedRetry ==
    /\ attempt \in 1..retries
    /\ pc = "read_wt" =>
           /\ backoffs = attempt - 1
           /\ \A a \in 1..(attempt - 1) : ~GoodAttempt(a)
    /\ ReadReturned =>
           /\ GoodAttempt(attempt) /\ \A a \in 1..(attempt - 1) : ~GoodAttempt(a)
           /\ reading = Triple(Response(attempt))
           /\ backoffs = attempt - 1
    /\ ReadRaised =>
           /\ \A a \in 1..retries : ~GoodAttempt(a)
           /\ lastError.attempt = retries /\ lastError.diag = Diagnostic(retries)
           /\ backoffs = retries
    /\ (\A a \in 1..retries : ~GoodAttempt(a)) /\ pc # "read_wt" => ReadRaised
    /\ exitCause = "none" => (pc = "read_wt" \/ ReadReturned)

\* the call returned on a later attempt, after failed ones
C7_Witness ==
    /\ pc = "q_volt" /\ attempt = 3 /\ backoffs = 2 /\ lastError.attempt = 2
    /\ reading.set

AllEmpty == wtConn = "open" /\ \A a \in 1..retries : Response(a) = EmptyLine

DataRows == Len(csv) - 1

\* C8: in charging.py, when the meter returns an empty line for 5 consecutive
\* attempts within one tick, the read failure is raised, the shutdown sequence
\* runs exactly once and the CSV gets no row for that tick.
C8_EmptyRepliesExhaustRead ==
    AllEmpty =>
        /\ ~ReadReturned
        /\ DataRows = tick - 1
        /\ pc # "read_wt" =>
               /\ ReadRaised /\ lastError.diag = "empty response line"
               /\ exitCause = "error" /\ sdRuns = 1 /\ Ended
        /\ pc = "done" =>
               /\ Times(sdLog, "outp_off") = 1 /\ Times(sdLog, "report") = 1
               /\ Times(dcCmds, "OUTP OFF") = 1

\* five empty replies in the second tick: main has ended with the read
\* failure, one row in the file
C8_Witness ==
    /\ AllEmpty /\ pc = "done" /\ exc = "RuntimeError" /\ tick = 2 /\ DataRows = 1
    /\ backoffs = retries

ColVal(line, col) == line.vals[CHOOSE k \in 1..Len(line.cols) : line.cols[k] = col]

\* C9: in every row any variant writes to the CSV the meter's current and
\* power are >= 0 whatever the sign of the reply, and so is the current given
\* to the plot.
C9_OutputCurrentAndPowerNonNegative ==
    /\ \A i \in 1..Len(csv) :
           csv[i].kind = "row" =>
               Ge(ColVal(csv[i], "Oc"), Num(0)) /\ Ge(ColVal(csv[i], "Op"), Num(0))
    /\ \A j \in 1..Len(plotPts) : Ge(plotPts[j][2], Num(0))

\* C10: the loop is left by the threshold path exactly when the voltage read
\* from the meter in that same tick is >= STOP_VOLTAGE: on leaving so, the
\* tick's reading is there and is >= STOP_VOLTAGE; on going on to the next
\* tick, it is there and is not.
C10_StopOnThisTicksMeterVoltage ==
    /\ exitCause = "threshold" =>
           reading.set /\ Ge(reading.Ov, Num(STOP_VOLTAGE[variant]))
    /\ pc \in {"sleep", "wait_tick"} =>
           reading.set /\ ~Ge(reading.Ov, Num(STOP_VOLTAGE[variant]))

\* the quantity a header column names
Quantity(col) ==
    CASE col = "Timestamp" -> "Timestamp"
      [] col = "Input_Voltage(V)" -> "Iv"
      [] col = "Input_Current(A)" -> "Ic"
      [] col = "Input_Power(W)" -> "Ip"
      [] col \in {"Output_Voltage(V)", "Voltage(V)"} -> "Ov"
      [] col \in {"Output_Current(A)", "Current(A)"} -> "Oc"
      [] col \in {"Output_Power(W)", "Power(W)"} -> "Op"

SevenColumns == << "Timestamp", "Iv", "Ic", "Ip", "Ov", "Oc", "Op" >>

\* C11: in every session the CSV header is written once and before any data
\* row, and every row appended after it has the header's columns, as many and
\* in the same order (timestamp, input V/I/P of the DC source, output V/I/P of
\* the meter in the scripts that log both instruments).
C11_HeaderOnceThenRowsOfItsColumns ==
    csv # <<>> =>
        /\ csv[1].kind = "header"
        /\ variant # "working" =>
               [k \in 1..Len(csv[1].cols) |-> Quantity(csv[1].cols[k])] = SevenColumns
        /\ \A i \in 2..Len(csv) :
               /\ csv[i].kind = "row"
               /\ Len(csv[i].vals) = Len(csv[1].cols)
               /\ csv[i].cols = [k \in 1..Len(csv[1].cols) |-> Quantity(csv[1].cols[k])]

\* main_test.py has logged two rows under its header
C11_Witness ==
    /\ variant = "main_test" /\ Len(csv) = 3 /\ csv[3].kind = "row"
    /\ csv[1].cols = CSV_HEADERS

\* where a step stands in the shutdown log
Pos(step) == CHOOSE i \in 1..Len(sdLog) : sdLog[i] = step

ClaimedOrder == << "outp_off", "wt_close", "dc_close", "plot", "report" >>

\* C12: in every variant's shutdown sequence the steps run in this order: the
\* DC source's output is disabled, the meter's transport is closed, the DC
\* source's transport is closed, the plot is finalized, the CSV path is
\* reported.
C12_ShutdownStepsInClaimedOrder ==
    \A a \in 1..Len(ClaimedOrder), b \in 1..Len(ClaimedOrder) :
        (a < b /\ InLog(ClaimedOrder[a]) /\ InLog(ClaimedOrder[b]))
            => Pos(ClaimedOrder[a]) < Pos(ClaimedOrder[b])

\* C13: on every exit path of the polling loop (threshold, interruption, read
\* error) the session is finalized: the plot is written once to an image file
\* named after the CSV and the CSV path is reported.
C13_PlotSavedOnceAndPathReported ==
    (variant \in {"charging", "main_test"} /\ pc = "done" /\ exitCause \in LoopExits)
        => plotSaved = 1 /\ InLog("report")

\* when tick k (the first is tick 1, due at start_time) is due
DueAt(k) == (k - 1) * LOG_INTERVAL

\* the longest of the latencies of the ticks before tick k
RECURSIVE MaxLatBefore(_)
MaxLatBefore(k) ==
    IF k <= 1 THEN 0
    ELSE LET m == MaxLatBefore(k - 1) IN IF lats[k - 1] > m THEN lats[k - 1] ELSE m

\* every tick before tick k, with the yield after it, fitted in the interval
FitBefore(k) == \A j \in 1..(k - 1) : lats[j] + YieldSleep <= LOG_INTERVAL

\* C14 as stated: whatever the latencies, every tick is taken within one read
\* latency (the longest so far) of start_time + k*LOG_INTERVAL.
C14_TickWithinOneLatencyOfSchedule ==
    \A k \in 1..Len(tickAt) :
        tickAt[k] >= DueAt(k) /\ tickAt[k] - DueAt(k) <= MaxLatBefore(k)

\* C14, amended: as long as every earlier tick (log_row and the 0.1 s yield)
\* fitted in LOG_INTERVAL, tick k is taken less than one yield (0.1 s, less
\* than any read latency) after start_time + k*LOG_INTERVAL, so latency does
\* not accumulate; no tick is taken before it is due.
C14_NoDriftWhileTicksFitInterval ==
    \A k \in 1..Len(tickAt) :
        /\ tickAt[k] >= DueAt(k)
        /\ FitBefore(k) => tickAt[k] - DueAt(k) < YieldSleep
        /\ lats[k] >= YieldSleep

\* three ticks of 0.55 s each: the third is taken on schedule
C14_Witness ==
    /\ Len(tickAt) = 3 /\ lats = << 11, 11, 11 >> /\ tickAt[3] - DueAt(3) < YieldSleep
    /\ tickAt[2] > DueAt(2)

\* C15: WT310E.close() may be called any number of times, in any driver state
\* (never connected, connected, already closed, the underlying close raising),
\* and never raises; a handle it closed stays closed.
C15_CloseNeverRaises ==
    /\ exc = "none"
    /\ \A i \in 1..Len(closeLog) :
           /\ closeLog[i].inst = "ok" => wtConn = "closed"
           /\ closeLog[i].rm = "ok" => wtRmConn = "closed"

\* three calls on a connected driver: the first closes the instrument, the
\* second close of it raises inside, the third call returns as well
C15_Witness ==
    /\ Len(closeLog) = 3 /\ closeLog[1].was = "open" /\ closeLog[1].inst = "ok"
    /\ closeLog[2].inst = "raised" /\ exc = "none"

FirstMatching == CHOOSE i \in MatchingCands : \A j \in MatchingCands : i <= j

\* C16: detection is first-match-wins in enumeration order: the candidate it
\* returns is the first one that passes the name filter and whose reply holds
\* the expected token, and no candidate after it was opened or queried.
C16_FirstMatchWins ==
    (detFn # "none" /\ detRes.ret # 0) =>
        /\ detRes.tried \subseteq 1..detRes.ret
        /\ detRes.ret \in 1..Len(detCands) =>
               MatchingCands # {} /\ detRes.ret = FirstMatching

\* two candidates that both match: the first is returned, the second untouched
C16_Witness ==
    /\ detFn \in {"detect_spe6103", "detect_wt310e_visa", "connect"}
    /\ MatchingCands = {1, 2} /\ detRes.ret = 1 /\ detRes.tried = {1}

\* C17: in charging.py and charging_working.py, when the power meter was not
\* found or connected (its handle is None), OUTP ON is never written and no
\* tick is attempted.
C17_NoOutputNoTickWithoutMeter ==
    (variant \in {"charging", "working"} /\ wtConn = "none")
        => ~Written("OUTP ON") /\ tick = 0

\* malformed as the claim words it: fewer than three non-empty fields, or a
\* (non-empty) field of the reply that does not parse as a number
MalformedAsClaimed(line) ==
    LET parts == SelectSeq(line, LAMBDA f : f # "") IN
    Len(parts) < 3 \/ \E k \in 1..Len(parts) : ~IsFloat(parts[k])

\* the attempts of the call that got a reply at all
Replied(a) == wtConn # "none" /\ Response(a) # CommError

\* C18: read_wt310e (charging.py) fails an attempt on a reply exactly when the
\* reply has fewer than 3 non-empty comma-separated fields or one of its
\* fields fails numeric parsing; any other reply is accepted and gives its
\* first three fields as (voltage, current, power).
C18_MalformedExactlyAsClaimed ==
    /\ \A a \in 1..(attempt - 1) : Replied(a) => MalformedAsClaimed(Response(a))
    /\ (ReadRaised /\ Replied(attempt)) => MalformedAsClaimed(Response(attempt))
    /\ ReadReturned =>
           /\ ~MalformedAsClaimed(Response(attempt))
           /\ reading = Triple(Response(attempt))

\* C19: within a tick the meter is read, then the DC source is queried three
\* times, then the row is appended, then the plot is updated, then the stop
\* condition is evaluated: a row is appended only after the tick's meter read
\* and source queries succeeded, and the row of the tick that reaches the stop
\* voltage is in the file (and on the plot) before the loop is left.
C19_TickStepsInOrder ==
    variant \in {"charging", "main_test", "pc_working"} =>
        /\ pc \in {"read_wt", "q_volt", "q_curr", "q_pow", "csv_row"} =>
               DataRows = tick - 1 /\ Len(plotPts) = tick - 1
        /\ pc \in {"q_volt", "q_curr", "q_pow", "csv_row"} => reading.set
        /\ pc = "plot_upd" => DataRows = tick /\ Len(plotPts) = tick - 1
        /\ pc \in {"check_stop", "sleep"} => DataRows = tick /\ Len(plotPts) = tick
        /\ exitCause = "threshold" =>
               /\ DataRows = tick /\ Len(plotPts) = tick
               /\ ColVal(csv[Len(csv)], "Ov") = reading.Ov
               /\ Ge(reading.Ov, Num(STOP_VOLTAGE[variant]))
        /\ exitCause = "error" => DataRows = tick - 1 /\ Len(plotPts) = tick - 1

\* the second tick reached the stop voltage: two rows, then the loop was left
C19_Witness ==
    /\ variant \in {"charging", "main_test"} /\ exitCause = "threshold"
    /\ tick = 2 /\ DataRows = 2 /\ pc = "done"

\* C20: in every variant the DC source is enabled by writing the voltage
\* setpoint, then the current limit, then OUTP ON: OUTP ON is never written
\* before both VOLT and CURR were written in the same run.
C20_VoltThenCurrThenOutpOn ==
    Written("OUTP ON") =>
        /\ Len(dcCmds) >= 3
        /\ dcCmds[1] = "VOLT" /\ dcCmds[2] = "CURR" /\ dcCmds[3] = "OUTP ON"

(***************************************************************************)
(* C21: whenever main returns or ends with an exception, every transport   *)
(* handle and VISA resource manager the run opened has been given a close  *)
(* attempt, the early returns on detection failure included.               *)
(***************************************************************************)
C21_EveryOpenedHandleGivenCloseAttempt ==
    pc = "done" =>
        /\ wtConn # "none" => InLog("wt_close")
        /\ wtRmConn # "none" => InLog("wt_close")
        /\ dcConn # "none" => InLog("dc_close")
        /\ rmConn # "none" => InLog("rm_close")

(***************************************************************************)
(* C22: in any session's CSV every data row except possibly the last has   *)
(* an output (meter) voltage strictly below STOP_VOLTAGE: no tick is taken *)
(* after a tick whose measured output voltage was >= STOP_VOLTAGE.         *)
(***************************************************************************)
C22_RowsBeforeLastBelowStopVoltage ==
    \A i \in 1..Len(csv) :
        (csv[i].kind = "row" /\ i < Len(csv)) =>
            Lt(ColVal(csv[i], "Ov"), Num(STOP_VOLTAGE[variant]))

\* the resources the VISA pass of WT310E.connect opens: those named USB
UsbCands == {i \in 1..Len(detCands) : HasUSB(detCands[i].name)}

\* the handle of the one USBTMC address WT310E.connect probes
UsbtmcHandle == Len(detCands) + 1

(***************************************************************************)
(* C23: WT310E.connect tries VISA before USBTMC and USBTMC only if VISA    *)
(* produced no match; it returns True if and only if self.inst is the      *)
(* matched instrument and self.backend is "VISA" or "USBTMC" accordingly,  *)
(* and when it returns False self.inst and self.backend are still None.    *)
(***************************************************************************)
C23_ConnectVisaFirstAndResultConsistent ==
    detFn = "connect" =>
        /\ UsbtmcHandle \in detRes.tried <=>
               (detEnv.usbtmc /\ detRes.backend # "VISA")
        /\ (UsbtmcHandle \in detRes.tried /\ detEnv.pyvisa /\ detEnv.rmOk) =>
               \A i \in UsbCands : (\A j \in UsbCands : i <= j) => i \in detRes.tried
        /\ detRes.ret # 0 <=> detRes.backend \in {"VISA", "USBTMC"}
        /\ detRes.backend = "VISA" =>
               /\ detRes.ret \in 1..Len(detCands) /\ detRes.ret \in detRes.opened
               /\ MatchesMarker("connect", detCands[detRes.ret])
        /\ detRes.backend = "USBTMC" =>
               /\ detRes.ret = UsbtmcHandle /\ detRes.ret \in detRes.opened
               /\ UsbtmcMatches
        /\ detRes.ret = 0 => detRes.backend = "None"

\* VISA opened a USB resource that is not the meter, the USBTMC address
\* answered as one
C23_Witness ==
    /\ detFn = "connect" /\ detRes.backend = "USBTMC" /\ detRes.ret = UsbtmcHandle
    /\ 1 \in detRes.opened /\ Len(detCands) >= 1

\* the end of the loop pass that took tick k: log_row and the 0.1 s yield
PassEnd(k) == tickAt[k] + lats[k] + YieldSleep

(***************************************************************************)
(* C24: in charging.py's scheduled loop no tick starts before its          *)
(* scheduled time and none is skipped: after k completed ticks             *)
(* next_log_time is start_time + k*LOG_INTERVAL, tick k+1 starts only when *)
(* the clock has reached it, and after an overrun the following ticks run  *)
(* back-to-back (one loop pass after the other) until the schedule is      *)
(* caught up.                                                              *)
(***************************************************************************)
C24_NoEarlyNoSkippedTick ==
    /\ next_log_time = Len(tickAt) * LOG_INTERVAL
    /\ \A k \in 1..Len(tickAt) : tickAt[k] >= DueAt(k)
    /\ \A k \in 1..(Len(tickAt) - 1) :
           IF PassEnd(k) >= DueAt(k + 1)
           THEN tickAt[k + 1] = PassEnd(k)
           ELSE tickAt[k + 1] < DueAt(k + 1) + YieldSleep

\* the first tick overruns the interval (10.5 s): the second follows it at
\* once, late, and the third is back on schedule
C24_Witness ==
    /\ Len(tickAt) = 3 /\ lats[1] > LOG_INTERVAL
    /\ tickAt[2] = PassEnd(1) /\ tickAt[2] > DueAt(2)
    /\ tickAt[3] - DueAt(3) < YieldSleep
    /\ next_log_time = 3 * LOG_INTERVAL

\* the meter's reading of the current tick is at or above the stop voltage
AtStopVoltage ==
    /\ pc \notin SdSteps \cup {"done"}
    /\ reading.set /\ Ge(reading.Ov, Num(STOP_VOLTAGE[variant]))

\* main has ended after one pass of the finally block that switched the
\* output off and closed both instruments; when no shutdown step raised,
\* every step was taken and every handle main opened is closed
RunClosed ==
    /\ pc = "done" /\ sdRuns = 1 /\ exitCause \in {"threshold", "error"}
    /\ InLog("outp_off") /\ InLog("wt_close") /\ InLog("dc_close")
    /\ sdFailed = {} =>
           /\ ~outputOn /\ wtConn = "closed" /\ dcConn = "closed" /\ rmConn = "closed"
           /\ \A i \in 1..Len(SdOrder[variant]) :
                  \E j \in 1..Len(sdLog) : "sd_" \o sdLog[j] = SdOrder[variant][i]

(***************************************************************************)
(* C25 (liveness): with no user interruption, once a tick of the polling   *)
(* loop has read an output voltage >= STOP_VOLTAGE from the meter, the run *)
(* eventually leaves the loop, goes through the shutdown sequence and      *)
(* reaches Closed (charging.py, main_test.py).                             *)
(***************************************************************************)
C25_StopVoltageLeadsToClosed == AtStopVoltage ~> RunClosed

\* a run that stopped on the threshold in its second tick and is closed
C25_Witness ==
    /\ RunClosed /\ exitCause = "threshold" /\ tick = 2 /\ sdFailed = {}
    /\ Ge(reading.Ov, Num(STOP_VOLTAGE[variant]))

(***************************************************************************)
(* C26: wait_until_next_10sec_tick of charging_working.py sleeps a whole   *)
(* number of seconds w, 0 <= w <= LOG_INTERVAL-1, such that the current    *)
(* second + w is a multiple of LOG_INTERVAL, and sleeps 0 when the current *)
(* second is already one.                                                  *)
(***************************************************************************)
C26_WaitAlignsToNextMultiple ==
    \A k \in 1..Len(waits) :
        LET s == waits[k].sec
            w == waits[k].wait
        IN  /\ w \in 0..(LOG_INTERVAL_S - 1)
            /\ (s + w) % LOG_INTERVAL_S = 0
            /\ s % LOG_INTERVAL_S = 0 => w = 0

\* called at second 51 it slept 9 s; called again in second 0 it slept 0 s
C26_Witness ==
    /\ Len(waits) = 2
    /\ waits[1].sec = 51 /\ waits[1].wait = 9
    /\ waits[2].sec = 0 /\ waits[2].wait = 0

=============================================================================
